---- MODULE Spec2Model ----
(***************************************************************************)
(* A model of scripts/scrape.py: the site mirroring script.                *)
(*                                                                         *)
(* Strings are sequences of one-character strings, so that str.replace,    *)
(* str.split, the `in` test and the regular expressions of the script are  *)
(* computed character by character.  An HTML document is a sequence of     *)
(* attribute values (one per img/a/link/script element, in document order) *)
(* plus the element tree that remove_wix_ads works on.  A textual replace  *)
(* acts on every attribute value; the URLs the script replaces contain no  *)
(* quote or angle bracket, so no match spans two values.                   *)
(***************************************************************************)
EXTENDS Integers, Sequences, FiniteSets, TLC

(***************************************************************************)
(* Characters and strings                                                  *)
(***************************************************************************)
Lowers == <<"a","b","c","d","e","f","g","h","i","j","k","l","m","n","o","p","q","r","s","t","u","v","w","x","y","z">>
Uppers == <<"A","B","C","D","E","F","G","H","I","J","K","L","M","N","O","P","Q","R","S","T","U","V","W","X","Y","Z">>
Digits == <<"0","1","2","3","4","5","6","7","8","9">>

Range(s) == {s[i] : i \in DOMAIN s}

IsUpper(c) == c \in Range(Uppers)
IsLower(c) == c \in Range(Lowers)
\* \w of the re module: letters, digits and the underscore
IsWordChar(c) == IsUpper(c) \/ IsLower(c) \/ c \in Range(Digits) \/ c = "_"
\* \s of the re module
IsSpaceChar(c) == c = " "

IndexIn(s, c) == CHOOSE i \in DOMAIN s : s[i] = c
LowerChar(c) == IF IsUpper(c) THEN Lowers[IndexIn(Uppers, c)] ELSE c
UpperChar(c) == IF IsLower(c) THEN Uppers[IndexIn(Lowers, c)] ELSE c

\* str.lower
Lower(s) == [i \in DOMAIN s |-> LowerChar(s[i])]
\* str.capitalize: first character upper-cased, the rest lower-cased
Capitalize(w) == [i \in DOMAIN w |-> IF i = 1 THEN UpperChar(w[i]) ELSE LowerChar(w[i])]

\* sub occurs in s at position i
MatchAt(s, i, sub) ==
    /\ i + Len(sub) - 1 <= Len(s)
    /\ SubSeq(s, i, i + Len(sub) - 1) = sub

\* sub in s
Contains(s, sub) == \E i \in 1..(Len(s) + 1) : MatchAt(s, i, sub)

RECURSIVE ReplaceFrom(_, _, _, _)
ReplaceFrom(s, old, new, i) ==
    IF i > Len(s) THEN <<>>
    ELSE IF MatchAt(s, i, old) THEN new \o ReplaceFrom(s, old, new, i + Len(old))
    ELSE <<s[i]>> \o ReplaceFrom(s, old, new, i + 1)

\* s.replace(old, new) for a non-empty old (every caller tests `if url` first):
\* the non-overlapping occurrences, leftmost first
Replace(s, old, new) == ReplaceFrom(s, old, new, 1)

\* the last index of character c in s, 0 when absent
LastIndexOf(s, c) ==
    IF \E i \in DOMAIN s : s[i] = c
    THEN CHOOSE i \in DOMAIN s : s[i] = c /\ \A j \in DOMAIN s : s[j] = c => j <= i
    ELSE 0

\* the first index >= from of a character of cs in s, Len(s) + 1 when absent
FirstIndexOfAny(s, from, cs) ==
    IF \E i \in from..Len(s) : s[i] \in cs
    THEN CHOOSE i \in from..Len(s) : s[i] \in cs /\ \A j \in from..Len(s) : s[j] \in cs => i <= j
    ELSE Len(s) + 1

\* s.split("/")[-1]
LastSegment(s) == SubSeq(s, LastIndexOf(s, "/") + 1, Len(s))

RECURSIVE SplitFrom(_, _, _)
SplitFrom(s, i, cur) ==
    IF i > Len(s) THEN (IF cur = <<>> THEN <<>> ELSE <<cur>>)
    ELSE IF IsSpaceChar(s[i])
         THEN (IF cur = <<>> THEN SplitFrom(s, i + 1, <<>>)
               ELSE <<cur>> \o SplitFrom(s, i + 1, <<>>))
         ELSE SplitFrom(s, i + 1, Append(cur, s[i]))

\* s.split(): the words between runs of whitespace
Split(s) == SplitFrom(s, 1, <<>>)

RECURSIVE Concat(_)
Concat(ss) == IF ss = <<>> THEN <<>> ELSE Head(ss) \o Concat(Tail(ss))

(***************************************************************************)
(* safe_filename and to_camel_case                                         *)
(***************************************************************************)
IsSchemeChar(c) == IsUpper(c) \/ IsLower(c) \/ c \in Range(Digits) \/ c \in {"+", "-", "."}

\* urllib.parse.urlparse(url).path: the scheme and the network location are
\* cut off the front, the query and the fragment off the end
UrlPath(url) ==
    LET colon == FirstIndexOfAny(url, 1, {":"})
        hasScheme == /\ colon <= Len(url)
                     /\ colon > 1
                     /\ IsUpper(url[1]) \/ IsLower(url[1])
                     /\ \A i \in 1..(colon - 1) : IsSchemeChar(url[i])
        rest == IF hasScheme THEN SubSeq(url, colon + 1, Len(url)) ELSE url
        afterNetloc == IF MatchAt(rest, 1, <<"/", "/">>)
                       THEN SubSeq(rest, FirstIndexOfAny(rest, 3, {"/", "?", "#"}), Len(rest))
                       ELSE rest
    IN  SubSeq(afterNetloc, 1, FirstIndexOfAny(afterNetloc, 1, {"?", "#"}) - 1)

\* os.path.basename
Basename(path) == LastSegment(path)

\* re.sub(r'[^\w\-_\.]', '_', name)
SafeChar(c) == IF IsWordChar(c) \/ c \in {"-", "_", "."} THEN c ELSE "_"

safe_filename(url) ==
    LET name == Basename(UrlPath(url))
    IN  [i \in DOMAIN name |-> SafeChar(name[i])]

\* re.sub(r'[^\w\s]', '', text).split()
CamelWords(text) == Split(SelectSeq(text, LAMBDA c : IsWordChar(c) \/ IsSpaceChar(c)))

\* words[0] raises IndexError when the text holds no word character
to_camel_case_raises(text) == CamelWords(text) = <<>>

to_camel_case(text) ==
    LET words == CamelWords(text)
    IN  Lower(words[1]) \o Concat([k \in 1..(Len(words) - 1) |-> Capitalize(words[k + 1])])

(***************************************************************************)
(* HTML documents and remove_wix_ads                                       *)
(*                                                                         *)
(* The element tree is a sequence of nodes in document order; a node names *)
(* its parent (0: the document itself) and says whether its id is WIX_ADS. *)
(* A document value holds the attribute values (segs), the tree (nodes)    *)
(* and the set of nodes still attached (alive).  page.content() returns    *)
(* the browser's own serialization, which is well-formed, so parsing it    *)
(* and printing it again keeps the values and the tree.                    *)
(***************************************************************************)
RECURSIVE AncestorsOrSelf(_, _)
AncestorsOrSelf(nodes, n) ==
    IF n = 0 THEN {} ELSE {n} \cup AncestorsOrSelf(nodes, nodes[n].parent)

Descendants(nodes, n) == {m \in DOMAIN nodes : m # n /\ n \in AncestorsOrSelf(nodes, m)}

\* what soup.find(id="WIX_ADS") would give: the first matching element only
find_first_ad(soup) ==
    LET all == SelectSeq([i \in 1..Len(soup.nodes) |-> i],
                         LAMBDA n : n \in soup.alive /\ soup.nodes[n].ad)
    IN  IF all = <<>> THEN <<>> ELSE <<Head(all)>>

\* soup.find_all(id="WIX_ADS"): every matching element, in document order
find_all_ads(soup) ==
    SelectSeq([i \in 1..Len(soup.nodes) |-> i],
              LAMBDA n : n \in soup.alive /\ soup.nodes[n].ad)

\* ad.decompose(): the element and its subtree leave the tree
decompose(alive, nodes, n) == alive \ ({n} \cup Descendants(nodes, n))

RECURSIVE DecomposeAll(_, _, _)
DecomposeAll(alive, nodes, found) ==
    IF found = <<>> THEN alive
    ELSE DecomposeAll(decompose(alive, nodes, Head(found)), nodes, Tail(found))

remove_wix_ads(html_content) ==
    [html_content EXCEPT !.alive = DecomposeAll(html_content.alive, html_content.nodes,
                                                find_all_ads(html_content))]

(***************************************************************************)
(* The strings of the script                                               *)
(***************************************************************************)
main_domain == <<"s","o","o","z","h","a","l","h","o","o",".","w","i","x","s","i","t","e",".","c","o","m">>
Https == <<"h","t","t","p","s",":","/","/">>
main_url == Https \o main_domain \o <<"/","m","y","s","i","t","e">>
IndexHtml == <<"i","n","d","e","x",".","h","t","m","l">>
PagesDir == <<"p","a","g","e","s">>
ImagesDir == <<"i","m","a","g","e","s">>
DotHtml == <<".","h","t","m","l">>

\* os.path.join(asset_folder, filename)
PathJoin(folder, filename) == folder \o <<"/">> \o filename

\* the directory part of a path, <<>> for a file of the working directory
DirOf(path) == SubSeq(path, 1, LastIndexOf(path, "/") - 1)

\* f"./images/{img_filename}"
LocalImagePath(img_filename) == <<".", "/">> \o ImagesDir \o <<"/">> \o img_filename

\* f"/pages/{to_camel_case(last_segment)}.html"
local_page_filename(link_url) ==
    <<"/">> \o PagesDir \o <<"/">> \o to_camel_case(LastSegment(link_url)) \o DotHtml

\* f"pages/{link_text.replace(' ', '_').lower()}.html"
ScrapeFilename(link_text) ==
    PagesDir \o <<"/">> \o Lower(Replace(link_text, <<" ">>, <<"_">>)) \o DotHtml

\* content.replace(old, new) over the document's attribute values
ReplaceInContent(content, old, new) ==
    [content EXCEPT !.segs = [i \in DOMAIN content.segs |->
        [content.segs[i] EXCEPT !.val = Replace(content.segs[i].val, old, new)]]]

\* the link and script elements whose href or src contains the domain get
\* f"./{safe_filename(last_segment)}"
RewriteHead(content) ==
    [content EXCEPT !.segs = [i \in DOMAIN content.segs |->
        LET seg == content.segs[i]
        IN  IF /\ seg.tag \in {"link", "script"}
               /\ seg.val # <<>>
               /\ Contains(seg.val, main_domain)
            THEN [seg EXCEPT !.val = <<".", "/">> \o safe_filename(LastSegment(seg.val))]
            ELSE seg]]

\* page.content(): the rendered DOM of a remote page
PageContent(page) ==
    [segs  |-> [i \in DOMAIN page.imgs |-> [tag |-> "img", val |-> page.imgs[i]]]
               \o [i \in DOMAIN page.navs |-> [tag |-> "a", val |-> page.navs[i].href]]
               \o page.head,
     nodes |-> page.doc,
     alive |-> DOMAIN page.doc]

EmptyContent == [segs |-> <<>>, nodes |-> <<>>, alive |-> {}]

(***************************************************************************)
(* State                                                                   *)
(***************************************************************************)
VARIABLES
    web,         \* the remote site: URL -> page (imgs, navs, head, doc)
    env,         \* what the network and the disk do: per capture and attempt,
                 \* per asset URL, per tab
    htmlFiles,   \* index.html and pages/*: path -> [complete, html]
    imageFiles,  \* images/*: path -> the chunks the file holds
    dirs,        \* the directories that exist
    driver,      \* where run() is
    runNo,       \* which run of the script this is
    links,       \* the (text, url) pairs run() extracted
    task,        \* where each scrape_link task is
    sp,          \* the save_page calls: capture 0 is the home page, i is links[i]
    attempts,    \* per capture, how many attempts started (history)
    saves,       \* per capture, how many times the output file was written whole (history)
    writers,     \* per image path, the URLs whose download wrote it, oldest first (history)
    firstFiles   \* the output files the first run left (history)

vars == <<web, env, htmlFiles, imageFiles, dirs, driver, runNo, links, task, sp,
          attempts, saves, writers, firstFiles>>

\* max_retries=3
DefaultMaxRetries == 3

Put(f, k, v) == [x \in DOMAIN f \cup {k} |-> IF x = k THEN v ELSE f[x]]

Idle == [pc |-> "idle", url |-> <<>>, filename |-> <<>>, asset_folder |-> <<>>,
         max_retries |-> 0, retries |-> 0, k |-> 0, content |-> EmptyContent]

\* the state of save_page(page, url, filename, asset_folder, main_domain, max_retries)
\* at its first await: retries = 0 and the loop entered (or skipped)
StartSave(url, filename, asset_folder, max_retries) ==
    [pc |-> IF 0 < max_retries THEN "goto" ELSE "gaveup",
     url |-> url, filename |-> filename, asset_folder |-> asset_folder,
     max_retries |-> max_retries, retries |-> 0, k |-> 0, content |-> EmptyContent]

\* requests.get(url) has no timeout: against a server that never answers the
\* call never returns, and being a blocking call inside a coroutine it keeps
\* the whole event loop from running any other task
LoopBlocked == \E c \in DOMAIN sp : sp[c].pc = "requests_get"

\* what the environment does to the current attempt of capture c
Outcome(c) == env.nav[c][sp[c].retries + 1]

\* except Exception: retries += 1, then await asyncio.sleep(2)
SpFail(c) == [sp EXCEPT ![c].retries = @ + 1, ![c].pc = "sleep"]

\* open(path, "w") succeeds: the directory exists and the name is a file name
CanOpen(path) ==
    /\ LastSegment(path) # <<>>
    /\ DirOf(path) = <<>> \/ DirOf(path) \in dirs

(***************************************************************************)
(* download_asset                                                          *)
(***************************************************************************)
\* response.content, as chunks that name their download
Body(url) == [k \in 1..env.asset[url].len |-> <<url, k>>]

OldBytes(file_path) == IF file_path \in DOMAIN imageFiles THEN imageFiles[file_path] ELSE <<>>

\* what open(file_path, 'r+b') would give: the old bytes past the written ones stay
WriteBytesKeepingOld(old, body, n) == SubSeq(body, 1, n) \o SubSeq(old, n + 1, Len(old))

\* open(file_path, 'wb') empties the file, file.write puts n chunks of the body
WriteBytes(old, body, n) == SubSeq(body, 1, n)

\* The coroutine holds no await: it runs from requests.get to the print
\* without any other task running.  Every exception is caught; a write that
\* fails leaves the part of the body already written.
download_asset(url, asset_folder, filename) ==
    LET a == env.asset[url]
        file_path == PathJoin(asset_folder, filename)
    IN  IF a.resp # "ok" \/ a.fs = "open_fail" \/ ~CanOpen(file_path)
        THEN UNCHANGED <<imageFiles, writers>>
        ELSE /\ \E n \in (IF a.fs = "write_fail" THEN 0..(a.len - 1) ELSE {a.len}) :
                  imageFiles' = Put(imageFiles, file_path,
                                    WriteBytes(OldBytes(file_path), Body(url), n))
             /\ writers' = Put(writers, file_path,
                               Append(IF file_path \in DOMAIN writers
                                      THEN writers[file_path] ELSE <<>>, url))

(***************************************************************************)
(* save_page, one action per await                                         *)
(***************************************************************************)
\* await page.goto(url, timeout=60000)
Goto(c) ==
    /\ ~LoopBlocked
    /\ sp[c].pc = "goto"
    /\ attempts' = [attempts EXCEPT ![c] = @ + 1]
    /\ sp' = IF Outcome(c) = "goto" THEN SpFail(c) ELSE [sp EXCEPT ![c].pc = "networkidle"]
    /\ UNCHANGED <<web, env, htmlFiles, imageFiles, dirs, driver, runNo, links, task,
                   saves, writers, firstFiles>>

\* await page.wait_for_load_state("networkidle", timeout=60000)
WaitIdle(c) ==
    /\ ~LoopBlocked
    /\ sp[c].pc = "networkidle"
    /\ sp' = IF Outcome(c) = "idle" THEN SpFail(c) ELSE [sp EXCEPT ![c].pc = "content"]
    /\ UNCHANGED <<web, env, htmlFiles, imageFiles, dirs, driver, runNo, links, task,
                   attempts, saves, writers, firstFiles>>

\* content = await page.content(); image_elements = await page.query_selector_all("img")
GetContent(c) ==
    /\ ~LoopBlocked
    /\ sp[c].pc = "content"
    /\ sp' = IF Outcome(c) = "dom" THEN SpFail(c)
             ELSE [sp EXCEPT ![c].pc = "img", ![c].k = 1,
                             ![c].content = PageContent(web[sp[c].url])]
    /\ UNCHANGED <<web, env, htmlFiles, imageFiles, dirs, driver, runNo, links, task,
                   attempts, saves, writers, firstFiles>>

\* one turn of `for img in image_elements`
Img(c) ==
    /\ ~LoopBlocked
    /\ sp[c].pc = "img"
    /\ sp[c].k <= Len(web[sp[c].url].imgs)
    /\ LET img_url == web[sp[c].url].imgs[sp[c].k]
           img_filename == safe_filename(img_url)
       IN  IF img_url = <<>>
           THEN /\ sp' = [sp EXCEPT ![c].k = @ + 1]
                /\ UNCHANGED <<imageFiles, writers>>
           ELSE IF env.asset[img_url].resp = "hang"
           THEN /\ sp' = [sp EXCEPT ![c].pc = "requests_get"]
                /\ UNCHANGED <<imageFiles, writers>>
           ELSE /\ download_asset(img_url, sp[c].asset_folder, img_filename)
                /\ sp' = [sp EXCEPT ![c].k = @ + 1,
                                    ![c].content = ReplaceInContent(sp[c].content, img_url,
                                                        LocalImagePath(img_filename))]
    /\ UNCHANGED <<web, env, htmlFiles, dirs, driver, runNo, links, task,
                   attempts, saves, firstFiles>>

\* nav_links = await page.query_selector_all("nav a")
QueryNav(c) ==
    /\ ~LoopBlocked
    /\ sp[c].pc = "img"
    /\ sp[c].k > Len(web[sp[c].url].imgs)
    /\ sp' = [sp EXCEPT ![c].pc = "nav", ![c].k = 1]
    /\ UNCHANGED <<web, env, htmlFiles, imageFiles, dirs, driver, runNo, links, task,
                   attempts, saves, writers, firstFiles>>

\* one turn of `for nav_link in nav_links`
Nav(c) ==
    /\ ~LoopBlocked
    /\ sp[c].pc = "nav"
    /\ sp[c].k <= Len(web[sp[c].url].navs)
    /\ LET link_url == web[sp[c].url].navs[sp[c].k].href
       IN  sp' = IF link_url # <<>> /\ Contains(link_url, main_domain)
                 THEN IF to_camel_case_raises(LastSegment(link_url))
                      THEN SpFail(c)
                      ELSE [sp EXCEPT ![c].k = @ + 1,
                                      ![c].content = ReplaceInContent(sp[c].content, link_url,
                                                          local_page_filename(link_url))]
                 ELSE [sp EXCEPT ![c].k = @ + 1]
    /\ UNCHANGED <<web, env, htmlFiles, imageFiles, dirs, driver, runNo, links, task,
                   attempts, saves, writers, firstFiles>>

\* what the attempt writes: the head links rewritten, the ads removed
FinalContent(content) == remove_wix_ads(RewriteHead(content))

\* after the last nav link: the soup, remove_wix_ads, open, write, return
WritePage(c) ==
    /\ ~LoopBlocked
    /\ sp[c].pc = "nav"
    /\ sp[c].k > Len(web[sp[c].url].navs)
    /\ IF Outcome(c) = "open" \/ ~CanOpen(sp[c].filename)
       THEN /\ sp' = SpFail(c)
            /\ UNCHANGED <<htmlFiles, saves>>
       ELSE IF Outcome(c) = "write"
       THEN /\ sp' = SpFail(c)
            /\ htmlFiles' = Put(htmlFiles, sp[c].filename,
                                [complete |-> FALSE, html |-> EmptyContent])
            /\ UNCHANGED saves
       ELSE /\ sp' = [sp EXCEPT ![c].pc = "returned"]
            /\ htmlFiles' = Put(htmlFiles, sp[c].filename,
                                [complete |-> TRUE, html |-> FinalContent(sp[c].content)])
            /\ saves' = [saves EXCEPT ![c] = @ + 1]
    /\ UNCHANGED <<web, env, imageFiles, dirs, driver, runNo, links, task,
                   attempts, writers, firstFiles>>

\* asyncio.sleep(2) is over: `while retries < max_retries`
Sleep(c) ==
    /\ ~LoopBlocked
    /\ sp[c].pc = "sleep"
    /\ sp' = [sp EXCEPT ![c].pc = IF sp[c].retries < sp[c].max_retries
                                  THEN "goto" ELSE "gaveup"]
    /\ UNCHANGED <<web, env, htmlFiles, imageFiles, dirs, driver, runNo, links, task,
                   attempts, saves, writers, firstFiles>>

Finished(c) == sp[c].pc \in {"returned", "gaveup"}

(***************************************************************************)
(* The inputs: anchors, images, documents, environments                    *)
(***************************************************************************)
MaxRetries == 3    \* save_page is tried with max_retries in 1..MaxRetries
MaxImgs == 1       \* img elements of a page
MaxNavs == 2       \* nav-bar anchors of a page
MaxNodes == 4      \* elements of the tree remove_wix_ads is given
MaxFaults == 1     \* faults of the environment during a run of the script

AHome  == [href |-> main_url, text |-> <<"H","o","m","e">>]
AAbout == [href |-> main_url \o <<"/","a","b","o","u","t">>, text |-> <<"A","b","o","u","t">>]
AStory == [href |-> main_url \o <<"/","o","u","r","-","s","t","o","r","y">>,
           text |-> <<"O","u","r"," ","S","t","o","r","y">>]
AShop  == [href |-> main_url \o <<"/","s","h","o","p","/">>, text |-> <<"S","h","o","p">>]
AExt   == [href |-> <<"h","t","t","p","s",":","/","/","x",".","o","r","g","/","a">>,
           text |-> <<"B","l","o","g">>]
ANone  == [href |-> <<>>, text |-> <<"T","o","p">>]

ImgA == <<"h","t","t","p","s",":","/","/","c","d","n",".","i","o","/","a","/","p","i","c",".","p","n","g">>
ImgB == <<"h","t","t","p","s",":","/","/","c","d","n",".","i","o","/","b","/","p","i","c",".","p","n","g">>
ImgUrls == {ImgA, ImgB}

HeadScript == [tag |-> "script", val |-> Https \o main_domain \o <<"/","a","p","p",".","j","s","?","v","=","2">>]

Outcomes == {"ok", "goto", "idle", "dom", "open", "write"}

SeqsUpTo(S, n) == UNION {[1..k -> S] : k \in 0..n}

\* the element trees of n nodes, in document order: a node's parent is the
\* document or an ancestor-or-self of the node before it
DocsOfLen(n) ==
    {d \in [1..n -> [parent : 0..(n - 1), ad : BOOLEAN]] :
        /\ \A i \in 1..n : d[i].parent < i
        /\ \A i \in 2..n : d[i].parent \in {0} \cup AncestorsOrSelf(d, i - 1)}

Docs == UNION {DocsOfLen(n) : n \in 0..MaxNodes}

OneAd == <<[parent |-> 0, ad |-> TRUE]>>

AssetOk(n) == [resp |-> "ok", fs |-> "ok", len |-> n]
AssetsOk == [u \in ImgUrls |-> IF u = ImgA THEN AssetOk(2) ELSE AssetOk(1)]
AssetFaults == {[resp |-> "http_error", fs |-> "ok"], [resp |-> "hang", fs |-> "ok"],
                [resp |-> "ok", fs |-> "open_fail"], [resp |-> "ok", fs |-> "write_fail"]}
WithFault(a, f) == [a EXCEPT !.resp = f.resp, !.fs = f.fs]

(***************************************************************************)
(* SaveSpec: one call of save_page on its own                              *)
(***************************************************************************)
SaveInitWith(page, max_retries, pattern, assets) ==
    /\ web = [u \in {main_url} |-> page]
    /\ env = [nav |-> [c \in {0} |-> pattern], asset |-> assets,
              open |-> <<>>, close |-> <<>>, home |-> "ok"]
    /\ htmlFiles = <<>>
    /\ imageFiles = <<>>
    /\ dirs = {PagesDir, ImagesDir}
    /\ driver = "caller"
    /\ runNo = 1
    /\ links = <<>>
    /\ task = <<>>
    /\ sp = [c \in {0} |-> StartSave(main_url, IndexHtml, ImagesDir, max_retries)]
    /\ attempts = [c \in {0} |-> 0]
    /\ saves = [c \in {0} |-> 0]
    /\ writers = <<>>
    /\ firstFiles = {}

\* every pattern of per-attempt outcomes, on one plain page
SaveInitRetry ==
    \E max_retries \in 1..MaxRetries :
        \E pattern \in [1..max_retries -> Outcomes] :
            SaveInitWith([imgs |-> <<ImgA>>, navs |-> <<AAbout>>, head |-> <<HeadScript>>,
                          doc |-> OneAd],
                         max_retries, pattern, AssetsOk)

\* every page of up to MaxImgs images and MaxNavs anchors, every fate of a
\* download, no fault of the page itself
SaveInitRewrite ==
    \E imgs \in SeqsUpTo(ImgUrls \cup {<<>>}, MaxImgs) :
        \E navs \in SeqsUpTo({AHome, AAbout, AStory, AShop, AExt, ANone}, MaxNavs) :
            \E fa \in AssetFaults \cup {[resp |-> "ok", fs |-> "ok"]} :
                SaveInitWith([imgs |-> imgs, navs |-> navs, head |-> <<HeadScript>>,
                              doc |-> OneAd],
                             DefaultMaxRetries, [i \in 1..DefaultMaxRetries |-> "ok"],
                             [u \in ImgUrls |-> WithFault(AssetsOk[u], fa)])

\* every element tree of up to MaxNodes nodes
SaveInitAds ==
    \E doc \in Docs :
        SaveInitWith([imgs |-> <<>>, navs |-> <<>>, head |-> <<>>, doc |-> doc],
                     DefaultMaxRetries, [i \in 1..DefaultMaxRetries |-> "ok"], AssetsOk)

SaveInit == SaveInitRetry \/ SaveInitRewrite \/ SaveInitAds

SaveNext ==
    \/ \E c \in DOMAIN sp : Goto(c)
    \/ \E c \in DOMAIN sp : WaitIdle(c)
    \/ \E c \in DOMAIN sp : GetContent(c)
    \/ \E c \in DOMAIN sp : Img(c)
    \/ \E c \in DOMAIN sp : QueryNav(c)
    \/ \E c \in DOMAIN sp : Nav(c)
    \/ \E c \in DOMAIN sp : WritePage(c)
    \/ \E c \in DOMAIN sp : Sleep(c)

SaveSpec == SaveInit /\ [][SaveNext]_vars

(***************************************************************************)
(* Claims about save_page (SaveSpec)                                       *)
(***************************************************************************)
SavedHtml(c) == htmlFiles[sp[c].filename].html

DownloadSucceeds(url) == env.asset[url].resp = "ok" /\ env.asset[url].fs = "ok"

HtmlContains(html, url) == \E j \in DOMAIN html.segs : Contains(html.segs[j].val, url)

\* C1: save_page makes at most max_retries attempts; when every attempt fails
\* it has made exactly max_retries attempts and the output file does not
\* exist afterwards; when an attempt succeeds the file was written exactly
\* once and no attempt follows the success.
C1_RetryThenNoFile ==
    \A c \in DOMAIN sp :
        /\ attempts[c] <= sp[c].max_retries
        /\ saves[c] <= 1
        /\ sp[c].pc = "returned" <=> saves[c] = 1
        /\ sp[c].pc = "gaveup" =>
              /\ attempts[c] = sp[c].max_retries
              /\ sp[c].filename \notin DOMAIN htmlFiles

\* The part of C1 that counts attempts, which the code keeps: never more than
\* max_retries attempts, exactly max_retries when it gives up, one whole
\* write and no further attempt when it returns.
RetryCountsHold ==
    \A c \in DOMAIN sp :
        /\ attempts[c] <= sp[c].max_retries
        /\ saves[c] <= 1
        /\ sp[c].pc = "returned" <=> saves[c] = 1
        /\ sp[c].pc = "gaveup" => attempts[c] = sp[c].max_retries /\ saves[c] = 0

\* C2: on a saved page, for every image with a non-empty src either the
\* download succeeded, the file exists under the asset folder and the saved
\* HTML no longer holds the original URL, or the download failed and the
\* saved HTML still holds the original URL.
C2_RewriteOnlyDownloaded ==
    \A c \in DOMAIN sp :
        sp[c].pc = "returned" =>
            \A i \in DOMAIN web[sp[c].url].imgs :
                LET img_url == web[sp[c].url].imgs[i]
                    file_path == PathJoin(sp[c].asset_folder, safe_filename(img_url))
                IN  img_url # <<>> =>
                        \/ /\ DownloadSucceeds(img_url)
                           /\ file_path \in DOMAIN imageFiles
                           /\ ~HtmlContains(SavedHtml(c), img_url)
                        \/ /\ ~DownloadSucceeds(img_url)
                           /\ HtmlContains(SavedHtml(c), img_url)

\* the place of nav anchor k among the attribute values of its page
AnchorSeg(page, k) == Len(page.imgs) + k

\* C3: on a saved page, every nav anchor whose href contains the domain has
\* its href replaced by /pages/<derived-name>.html and the original href
\* occurs nowhere in the saved HTML, whatever the order of the anchors and
\* whether or not one href is a prefix of another; the href of an anchor
\* that does not contain the domain is unchanged.
C3_NavLinksRewritten ==
    \A c \in DOMAIN sp :
        sp[c].pc = "returned" =>
            LET page == web[sp[c].url]
            IN  \A k \in DOMAIN page.navs :
                    LET href == page.navs[k].href
                        saved == SavedHtml(c).segs[AnchorSeg(page, k)].val
                    IN  IF href # <<>> /\ Contains(href, main_domain)
                        THEN /\ saved = local_page_filename(href)
                             /\ ~HtmlContains(SavedHtml(c), href)
                        ELSE saved = href

\* the elements of a tree that lie in no ad container and are none
OutsideAds(nodes) ==
    {n \in DOMAIN nodes : \A m \in AncestorsOrSelf(nodes, n) : ~nodes[m].ad}

\* C8 as stated: every file save_page writes holds no ad-container element,
\* holds every other element of the page, and holds the whole tree when the
\* page has no ad container.
C8_AdsGoneAllOthersKept ==
    \A c \in DOMAIN sp :
        sp[c].pc = "returned" =>
            LET nodes == web[sp[c].url].doc
                kept == SavedHtml(c).alive
            IN  /\ \A n \in kept : ~nodes[n].ad
                /\ \A n \in DOMAIN nodes : ~nodes[n].ad => n \in kept
                /\ (\A n \in DOMAIN nodes : ~nodes[n].ad) => kept = DOMAIN nodes

\* C8 amended: every file save_page writes holds no ad-container element,
\* holds exactly the elements that lie outside every ad container (an ad
\* container goes with its whole subtree), and holds the whole tree when the
\* page has no ad container.
C8_AdsGoneOutsideKept ==
    \A c \in DOMAIN sp :
        sp[c].pc = "returned" =>
            LET nodes == web[sp[c].url].doc
                kept == SavedHtml(c).alive
            IN  /\ SavedHtml(c).nodes = nodes
                /\ \A n \in kept : ~nodes[n].ad
                /\ kept = OutsideAds(nodes)
                /\ (\A n \in DOMAIN nodes : ~nodes[n].ad) => kept = DOMAIN nodes

\* a page with two ad containers, one inside the other, a third elsewhere or
\* an element outside them, has been saved
C8_Witness ==
    \E c \in DOMAIN sp :
        /\ sp[c].pc = "returned"
        /\ LET nodes == web[sp[c].url].doc
           IN  /\ \E n, m \in DOMAIN nodes :
                      nodes[n].ad /\ nodes[m].ad /\ m \in Descendants(nodes, n)
               /\ \E n, m \in DOMAIN nodes :
                      nodes[n].ad /\ nodes[m].ad /\ n # m /\ m \notin Descendants(nodes, n)
                      /\ n \notin Descendants(nodes, m)
               /\ SavedHtml(c).alive # {}

\* C10: the rewrite steps never fail on their own: when the environment lets
\* the first attempt through (navigation, idle wait, DOM queries, file
\* write), save_page spends no retry and does not give up.
C10_RewriteNeverFails ==
    \A c \in DOMAIN sp :
        (sp[c].max_retries >= 1 /\ env.nav[c][1] = "ok") =>
            /\ sp[c].retries = 0
            /\ sp[c].pc \notin {"sleep", "gaveup"}

(***************************************************************************)
(* run() and scrape_link                                                   *)
(***************************************************************************)
MaxLinks == 2      \* nav-bar anchors of the home page in a run of the script

Restrict(f, S) == [x \in S |-> f[x]]

\* os.remove("index.html"), shutil.rmtree("images"), shutil.rmtree("pages")
CleanedHtml(files) ==
    Restrict(files, {f \in DOMAIN files : f # IndexHtml /\ DirOf(f) # PagesDir})

CleanedImages(files) == Restrict(files, {f \in DOMAIN files : DirOf(f) # ImagesDir})

\* cleanup_directories(), then os.makedirs("pages"), os.makedirs("images")
Setup ==
    /\ ~LoopBlocked
    /\ driver = "start"
    /\ htmlFiles' = CleanedHtml(htmlFiles)
    /\ imageFiles' = CleanedImages(imageFiles)
    /\ writers' = Restrict(writers, DOMAIN writers \cap DOMAIN CleanedImages(imageFiles))
    /\ dirs' = (dirs \ {ImagesDir, PagesDir}) \cup {PagesDir, ImagesDir}
    /\ driver' = "launch"
    /\ UNCHANGED <<web, env, runNo, links, task, sp, attempts, saves, firstFiles>>

\* the browser, the context, the first tab and page.goto(main_url), which has
\* Playwright's default timeout: an exception here leaves run()
OpenHome ==
    /\ ~LoopBlocked
    /\ driver = "launch"
    /\ driver' = IF env.home = "ok" THEN "wait_nav" ELSE "raised"
    /\ UNCHANGED <<web, env, htmlFiles, imageFiles, dirs, runNo, links, task, sp,
                   attempts, saves, writers, firstFiles>>

\* the (link_text, link_url) pairs of the anchors whose href holds the domain
ExtractedLinks(page) ==
    SelectSeq(page.navs, LAMBDA a : a.href # <<>> /\ Contains(a.href, main_domain))

\* wait_for_selector("nav"), the loop over the anchors, and the call of
\* save_page for the home page up to its first await
ExtractLinks ==
    /\ ~LoopBlocked
    /\ driver = "wait_nav"
    /\ links' = ExtractedLinks(web[main_url])
    /\ sp' = [c \in 0..Len(links') |->
                 IF c = 0 THEN StartSave(main_url, IndexHtml, ImagesDir, DefaultMaxRetries)
                 ELSE Idle]
    /\ attempts' = [c \in 0..Len(links') |-> 0]
    /\ saves' = [c \in 0..Len(links') |-> 0]
    /\ task' = [i \in 1..Len(links') |-> "pending"]
    /\ driver' = "save_home"
    /\ UNCHANGED <<web, env, htmlFiles, imageFiles, dirs, runNo, writers, firstFiles>>

\* save_page returned for the home page: page.close(), the tasks are made
\* and run() awaits asyncio.gather(*tasks)
HomeSaved ==
    /\ ~LoopBlocked
    /\ driver = "save_home"
    /\ Finished(0)
    /\ task' = [i \in DOMAIN task |-> "new_page"]
    /\ driver' = "gather"
    /\ UNCHANGED <<web, env, htmlFiles, imageFiles, dirs, runNo, links, sp,
                   attempts, saves, writers, firstFiles>>

\* scrape_link: page = await context.new_page(), then save_page up to its
\* first await; an exception of new_page ends the task
NewPage(i) ==
    /\ ~LoopBlocked
    /\ task[i] = "new_page"
    /\ IF env.open[i]
       THEN /\ task' = [task EXCEPT ![i] = "raised"]
            /\ UNCHANGED sp
       ELSE /\ task' = [task EXCEPT ![i] = "saving"]
            /\ sp' = [sp EXCEPT ![i] = StartSave(links[i].href, ScrapeFilename(links[i].text),
                                                 ImagesDir, DefaultMaxRetries)]
    /\ UNCHANGED <<web, env, htmlFiles, imageFiles, dirs, driver, runNo, links,
                   attempts, saves, writers, firstFiles>>

\* scrape_link: save_page returned, await page.close()
ClosePage(i) ==
    /\ ~LoopBlocked
    /\ task[i] = "saving"
    /\ Finished(i)
    /\ task' = [task EXCEPT ![i] = IF env.close[i] THEN "raised" ELSE "done"]
    /\ UNCHANGED <<web, env, htmlFiles, imageFiles, dirs, driver, runNo, links, sp,
                   attempts, saves, writers, firstFiles>>

\* every task returned: gather returns, await browser.close()
GatherReturn ==
    /\ ~LoopBlocked
    /\ driver = "gather"
    /\ \A i \in DOMAIN task : task[i] = "done"
    /\ driver' = "done"
    /\ UNCHANGED <<web, env, htmlFiles, imageFiles, dirs, runNo, links, task, sp,
                   attempts, saves, writers, firstFiles>>

\* gather without return_exceptions: the first exception of a task is raised
\* in run() at once; the other tasks are not cancelled and go on
GatherRaise ==
    /\ ~LoopBlocked
    /\ driver = "gather"
    /\ \E i \in DOMAIN task : task[i] = "raised"
    /\ driver' = "raised"
    /\ UNCHANGED <<web, env, htmlFiles, imageFiles, dirs, runNo, links, task, sp,
                   attempts, saves, writers, firstFiles>>

\* the exception leaves run(): asyncio.run cancels the tasks still pending
\* and the process ends
Exit ==
    /\ ~LoopBlocked
    /\ driver = "raised"
    /\ task' = [i \in DOMAIN task |->
                   IF task[i] \in {"done", "raised"} THEN task[i] ELSE "cancelled"]
    /\ sp' = [c \in DOMAIN sp |->
                 IF c > 0 /\ task[c] \notin {"done", "raised"}
                 THEN [sp[c] EXCEPT !.pc = "cancelled"] ELSE sp[c]]
    /\ driver' = "exited"
    /\ UNCHANGED <<web, env, htmlFiles, imageFiles, dirs, runNo, links,
                   attempts, saves, writers, firstFiles>>

RunIds == {1, 2}

OutputFiles == DOMAIN htmlFiles \cup DOMAIN imageFiles

\* the script is started again, on the same site and in the same environment
Rerun ==
    /\ driver \in {"done", "exited"}
    /\ runNo + 1 \in RunIds
    /\ runNo' = runNo + 1
    /\ firstFiles' = IF runNo = 1 THEN OutputFiles ELSE firstFiles
    /\ driver' = "start"
    /\ links' = <<>>
    /\ task' = <<>>
    /\ sp' = <<>>
    /\ attempts' = <<>>
    /\ saves' = <<>>
    /\ UNCHANGED <<web, env, htmlFiles, imageFiles, dirs, writers>>

(***************************************************************************)
(* RunSpec: the script run twice on one site in one environment            *)
(***************************************************************************)
RunAnchors == {AHome, AAbout, AStory, AExt}

RunUrls == {main_url} \cup {a.href : a \in RunAnchors}

RunImgs(url) ==
    IF url = AAbout.href THEN <<ImgA>> ELSE IF url = AStory.href THEN <<ImgB>> ELSE <<>>

RunPatterns ==
    {[i \in 1..DefaultMaxRetries |-> "ok"],
     [i \in 1..DefaultMaxRetries |-> IF i = 1 THEN "goto" ELSE "ok"],
     [i \in 1..DefaultMaxRetries |-> "idle"],
     [i \in 1..DefaultMaxRetries |-> IF i = 1 THEN "write" ELSE "dom"]}

Count(S) == Cardinality(S)

Faults(e) ==
    Count({c \in DOMAIN e.nav : \E i \in DOMAIN e.nav[c] : e.nav[c][i] # "ok"})
    + Count({u \in DOMAIN e.asset : e.asset[u].resp # "ok" \/ e.asset[u].fs # "ok"})
    + Count({i \in DOMAIN e.open : e.open[i]})
    + Count({i \in DOMAIN e.close : e.close[i]})
    + (IF e.home = "ok" THEN 0 ELSE 1)

RunEnvs(n) ==
    {e \in [nav : [0..n -> RunPatterns],
            asset : {[u \in ImgUrls |-> WithFault(AssetsOk[u], fa[u])] :
                        fa \in [ImgUrls -> AssetFaults \cup {[resp |-> "ok", fs |-> "ok"]}]},
            open : [1..n -> BOOLEAN],
            close : [1..n -> BOOLEAN],
            home : {"ok", "timeout"}] : Faults(e) <= MaxFaults}

StaleHtml == [complete |-> TRUE, html |-> EmptyContent]
OldPage == PagesDir \o <<"/","o","l","d",".","h","t","m","l">>
OldImage == ImagesDir \o <<"/","o","l","d",".","p","n","g">>

\* the working directory holds what a run on an earlier version of the site left
RunInit ==
    /\ \E navs \in SeqsUpTo(RunAnchors, MaxLinks) :
          /\ web = [u \in RunUrls |->
                       [imgs |-> RunImgs(u), navs |-> navs, head |-> <<HeadScript>>,
                        doc |-> OneAd]]
          /\ env \in RunEnvs(Len(SelectSeq(navs, LAMBDA a : Contains(a.href, main_domain))))
    /\ htmlFiles = (IndexHtml :> StaleHtml) @@ (OldPage :> StaleHtml)
    /\ imageFiles = (OldImage :> <<<<OldImage, 1>>>>)
    /\ dirs = {PagesDir, ImagesDir}
    /\ driver = "start"
    /\ runNo = 1
    /\ links = <<>>
    /\ task = <<>>
    /\ sp = <<>>
    /\ attempts = <<>>
    /\ saves = <<>>
    /\ writers = <<>>
    /\ firstFiles = {}

RunNext ==
    \/ Setup
    \/ OpenHome
    \/ ExtractLinks
    \/ HomeSaved
    \/ \E i \in DOMAIN task : NewPage(i)
    \/ \E i \in DOMAIN task : ClosePage(i)
    \/ GatherReturn
    \/ GatherRaise
    \/ Exit
    \/ Rerun
    \/ SaveNext

RunSpec == RunInit /\ [][RunNext]_vars

(***************************************************************************)
(* Claims about run() (RunSpec)                                            *)
(***************************************************************************)
\* a reference found in a saved page, resolved against the output tree: a
\* leading "/" is taken as the root of the tree, which is the reading under
\* which /pages/about.html can name pages/about.html at all
ResolveRef(ref) == IF ref # <<>> /\ ref[1] = "/" THEN Tail(ref) ELSE ref

RunSucceeded == driver = "done" /\ \A c \in DOMAIN sp : sp[c].pc = "returned"

\* C4: after a successful run, in every saved page the rewritten href of
\* every internal nav link names the file scrape_link wrote for that link,
\* and that file exists.
C4_NavLinksResolve ==
    RunSucceeded =>
        \A c \in DOMAIN sp :
            LET page == web[sp[c].url]
            IN  \A k \in DOMAIN page.navs :
                    (page.navs[k].href # <<>> /\ Contains(page.navs[k].href, main_domain)) =>
                        LET ref == ResolveRef(SavedHtml(c).segs[AnchorSeg(page, k)].val)
                        IN  /\ ref = ScrapeFilename(page.navs[k].text)
                            /\ ref \in DOMAIN htmlFiles

\* C5: a failure while capturing one link (retries exhausted, the tab not
\* opening or not closing) never raises to the driver and never aborts the
\* crawl: no task is cancelled, and the browser is closed only after every
\* link's capture has finished.
C5_LinkFailureNeverAborts ==
    env.home = "ok" =>
        /\ driver \notin {"raised", "exited"}
        /\ \A i \in DOMAIN task : task[i] # "cancelled"
        /\ driver = "done" => \A i \in DOMAIN task : task[i] = "done" /\ Finished(i)

RunEnded == driver \in {"done", "exited"}

\* C6: no operation blocks for ever: every network wait has a timeout, so
\* a run that has not ended is never held in a wait that nothing ends (a
\* state in which no task and not the driver can take a step).
C6_NoWaitBlocksForever == RunEnded \/ ~LoopBlocked

\* C7: before the first page of a run is loaded the output tree holds no
\* file and pages/ and images/ exist; and the second of two runs on the
\* same site in the same environment ends with the same set of output files
\* as the first.
C7_ResetThenSameFiles ==
    /\ driver = "launch" =>
          /\ OutputFiles = {}
          /\ {PagesDir, ImagesDir} \subseteq dirs
    /\ (runNo = 2 /\ RunEnded) => OutputFiles = firstFiles

\* The part of C7 the code keeps: the reset, and the same set of files from
\* two runs in which no tab fails to open or to close.
ResetThenSameFilesWithoutTabFault ==
    /\ driver = "launch" =>
          /\ OutputFiles = {}
          /\ {PagesDir, ImagesDir} \subseteq dirs
    /\ (runNo = 2 /\ RunEnded /\ driver = "done") => OutputFiles = firstFiles

LastWriter(f) == writers[f][Len(writers[f])]

\* C9 as stated: an image file that downloads have written holds, at every
\* moment and in every interleaving of the tasks, the complete body of the
\* most recent download to write it.
C9_LastWriterWhole ==
    \A f \in DOMAIN imageFiles :
        f \in DOMAIN writers => imageFiles[f] = Body(LastWriter(f))

\* C9 amended: an image file that downloads have written holds, at every
\* moment and in every interleaving of the tasks, chunks of one download
\* only, the most recent one to write it: its complete body when its write
\* succeeded, and the part written before the failure when its write failed.
C9_LastWriterOnly ==
    \A f \in DOMAIN imageFiles :
        f \in DOMAIN writers =>
            LET body == Body(LastWriter(f))
            IN  /\ Len(imageFiles[f]) <= Len(body)
                /\ imageFiles[f] = SubSeq(body, 1, Len(imageFiles[f]))
                /\ env.asset[LastWriter(f)].fs = "ok" => imageFiles[f] = body

\* two link captures are under way and the downloads of two different URLs
\* have written the same image path
C9_Witness ==
    \E f \in DOMAIN writers :
        /\ f \in DOMAIN imageFiles
        /\ Len(writers[f]) >= 2
        /\ writers[f][1] # writers[f][2]
        /\ \E i, j \in DOMAIN task : i # j /\ task[i] = "saving" /\ task[j] = "saving"

(***************************************************************************)
(* RaceSpec: one run on a site of two links whose pages hold images of     *)
(* the same file name, with every fate of the two downloads, a capture     *)
(* that may need a second attempt, and no failing tab                      *)
(***************************************************************************)
RacePatterns ==
    {[i \in 1..DefaultMaxRetries |-> "ok"],
     [i \in 1..DefaultMaxRetries |-> IF i = 1 THEN "write" ELSE "ok"]}

RaceSites == {<<a, b>> : a, b \in {AAbout, AStory}}

RaceEnvs ==
    [nav : {p \in [0..2 -> RacePatterns] : p[0][1] = "ok"},
     asset : {[u \in ImgUrls |-> WithFault(AssetsOk[u], fa[u])] :
                 fa \in [ImgUrls -> {[resp |-> "ok", fs |-> "ok"],
                                     [resp |-> "http_error", fs |-> "ok"],
                                     [resp |-> "ok", fs |-> "open_fail"],
                                     [resp |-> "ok", fs |-> "write_fail"]}]},
     open : {<<FALSE, FALSE>>},
     close : {<<FALSE, FALSE>>},
     home : {"ok"}]

RaceInit ==
    /\ \E navs \in RaceSites :
          web = [u \in RunUrls |->
                    [imgs |-> RunImgs(u), navs |-> navs, head |-> <<HeadScript>>,
                     doc |-> OneAd]]
    /\ env \in RaceEnvs
    /\ htmlFiles = (IndexHtml :> StaleHtml) @@ (OldPage :> StaleHtml)
    /\ imageFiles = (OldImage :> <<<<OldImage, 1>>>>)
    /\ dirs = {PagesDir, ImagesDir}
    /\ driver = "start"
    /\ runNo = 1
    /\ links = <<>>
    /\ task = <<>>
    /\ sp = <<>>
    /\ attempts = <<>>
    /\ saves = <<>>
    /\ writers = <<>>
    /\ firstFiles = {}

RaceNext ==
    \/ Setup
    \/ OpenHome
    \/ ExtractLinks
    \/ HomeSaved
    \/ \E i \in DOMAIN task : NewPage(i)
    \/ \E i \in DOMAIN task : ClosePage(i)
    \/ GatherReturn
    \/ SaveNext

RaceSpec == RaceInit /\ [][RaceNext]_vars

====
